---- MODULE Spec2Model ----
(***************************************************************************)
(* Model of matrix_addition.js: a WebGPU compute pipeline that adds two    *)
(* rows x cols matrices of f32 on the device and reads the sum back.       *)
(* The host control flow is init(); the device queue executes submitted    *)
(* command buffers asynchronously; the adapter-info promise is a second,   *)
(* un-awaited continuation on the host.                                    *)
(***************************************************************************)
EXTENDS Integers, Sequences, FiniteSets, TLC

\* ---------------------------------------------------------------- bounds
MaxRows == 2
MaxCols == 1

\* ------------------------------------------------------ program constants
WORKGROUP_SIZE == 64          \* @workgroup_size(64)
BYTES_PER_ELEMENT == 4        \* Float32Array.BYTES_PER_ELEMENT
DISPATCH_COUNT == 1           \* passEncoder.dispatchWorkgroups(1)

\* The candidate values of the global constants rows and cols.  The column
\* counts include one full workgroup and one element more than that.
RowChoices == 1..MaxRows
ColChoices == (1..MaxCols) \cup {WORKGROUP_SIZE, WORKGROUP_SIZE + 1}

VARIABLES
  rows, cols,            \* const rows, const cols
  env,                   \* what the browser offers: navigator.gpu, an adapter,
                         \* a device
  pc,                    \* position of init()
  alerted,               \* argument of alert(e) in init().catch, "" if none
  infoState,             \* promise of adapter.requestAdapterInfo()
  page,                  \* number of document.write calls of the info callback
  shaderModule,          \* <<>> or <<module>>
  bufs,                  \* device buffers by name
  exercised,             \* usages each buffer has been put to
  bindGroupLayout,       \* sequence of layout entries
  bindGroup,             \* sequence of bind group entries
  computePipeline,       \* <<>> or <<pipeline>>
  commands,              \* commands recorded in commandEncoder
  passOpen,              \* passEncoder is recording
  queue,                 \* command buffers submitted and not yet executed
  gpu,                   \* device-side execution state
  submitCount,           \* number of device.queue.submit calls
  copyArrayBuffer,       \* <<>> or <<mapped view contents>>
  data                   \* <<>> or <<host copy>>

vars == <<rows, cols, env, pc, alerted, infoState, page, shaderModule, bufs,
          exercised, bindGroupLayout, bindGroup, computePipeline, commands,
          passOpen, queue, gpu, submitCount, copyArrayBuffer, data>>

hostVars == <<rows, cols, env, pc, alerted>>
infoVars == <<infoState, page>>
devVars  == <<shaderModule, bufs, exercised, bindGroupLayout, bindGroup,
              computePipeline, commands, passOpen, queue, gpu, submitCount,
              copyArrayBuffer, data>>

\* ------------------------------------------------------------ pure parts
BufferNames == {"input1", "input2", "output", "stagingBuffer"}

\* const BUFFER_SIZE = new Float32Array(rows*cols).byteLength
BUFFER_SIZE == rows * cols * BYTES_PER_ELEMENT

\* new Float32Array(rows*cols).map((_,i) => 1)
matrixA == [i \in 1..(rows * cols) |-> 1]
\* new Float32Array(rows*cols).map((_,i) => 2)
matrixB == [i \in 1..(rows * cols) |-> 2]

\* The shader template literal: the bound of the guard is the interpolated
\* ${BUFFER_SIZE}; the workgroup size is the attribute of main.
shader == [limit |-> BUFFER_SIZE, workgroup_size |-> WORKGROUP_SIZE]

NoBuffer == [created |-> FALSE, size |-> 0, usage |-> {}, contents |-> <<>>,
             mapState |-> "unmapped"]

\* device.createBuffer({size, usage}): contents are zero-initialised.
NewBuffer(size, usage) ==
  [created |-> TRUE, size |-> size, usage |-> usage,
   contents |-> [i \in 1..(size \div BYTES_PER_ELEMENT) |-> 0],
   mapState |-> "unmapped"]

Range(s) == {s[i] : i \in DOMAIN s}

\* Errors raised by the acquisition phase of init().
NoGpuError     == "WebGPU not supported."
NoAdapterError == "Couldn't request WebGPU adapter."
NoDeviceError  == "requestDevice rejected"
AcquireErrors  == {NoGpuError, NoAdapterError, NoDeviceError}

\* Points at which init() is suspended (or finished) and other host
\* continuations may run.
Suspended == {"awaitAdapter", "awaitDevice", "awaitMap", "done", "caught"}

Init ==
  /\ rows \in RowChoices
  /\ cols \in ColChoices
  /\ env \in [gpu : BOOLEAN, adapter : BOOLEAN, device : BOOLEAN]
  /\ pc = "start"
  /\ alerted = ""
  /\ infoState = "none"
  /\ page = 0
  /\ shaderModule = <<>>
  /\ bufs = [b \in BufferNames |-> NoBuffer]
  /\ exercised = [b \in BufferNames |-> {}]
  /\ bindGroupLayout = <<>>
  /\ bindGroup = <<>>
  /\ computePipeline = <<>>
  /\ commands = <<>>
  /\ passOpen = FALSE
  /\ queue = <<>>
  /\ gpu = [pipeline |-> <<>>, bindings |-> <<>>, index |-> 1]
  /\ submitCount = 0
  /\ copyArrayBuffer = <<>>
  /\ data = <<>>

\* init().catch((e) => { alert(e) })
Catch(e) ==
  /\ pc' = "caught"
  /\ alerted' = e

\* ------------------------------------------------- 1: adapter and device
\* if (!navigator.gpu) throw Error('WebGPU not supported.')
NoGpu ==
  /\ pc = "start"
  /\ ~env.gpu
  /\ Catch(NoGpuError)
  /\ UNCHANGED <<rows, cols, env>>
  /\ UNCHANGED infoVars
  /\ UNCHANGED devVars

\* navigator.gpu.requestAdapter() is called and awaited
RequestAdapter ==
  /\ pc = "start"
  /\ env.gpu
  /\ pc' = "awaitAdapter"
  /\ UNCHANGED <<rows, cols, env, alerted>>
  /\ UNCHANGED infoVars
  /\ UNCHANGED devVars

\* the adapter promise resolves with null: if (!adapter) throw
AdapterNull ==
  /\ pc = "awaitAdapter"
  /\ ~env.adapter
  /\ Catch(NoAdapterError)
  /\ UNCHANGED <<rows, cols, env>>
  /\ UNCHANGED infoVars
  /\ UNCHANGED devVars

\* the adapter promise resolves with an adapter: requestAdapterInfo() is
\* started with a then-callback and not awaited; requestDevice() is awaited
AdapterGranted ==
  /\ pc = "awaitAdapter"
  /\ env.adapter
  /\ pc' = "awaitDevice"
  /\ infoState' = "pending"
  /\ UNCHANGED <<rows, cols, env, alerted, page>>
  /\ UNCHANGED devVars

\* Variant of DeviceRejected: the rejection is reported and init() goes on.
M_DeviceRejected ==
  /\ pc = "awaitDevice"
  /\ ~env.device
  /\ pc' = "createShaderModule"
  /\ alerted' = NoDeviceError
  /\ UNCHANGED <<rows, cols, env>>
  /\ UNCHANGED infoVars
  /\ UNCHANGED devVars

\* adapter.requestDevice() rejects: init() rejects
DeviceRejected ==
  /\ pc = "awaitDevice"
  /\ ~env.device
  /\ Catch(NoDeviceError)
  /\ UNCHANGED <<rows, cols, env>>
  /\ UNCHANGED infoVars
  /\ UNCHANGED devVars

\* adapter.requestDevice() resolves
DeviceGranted ==
  /\ pc = "awaitDevice"
  /\ env.device
  /\ pc' = "createShaderModule"
  /\ UNCHANGED <<rows, cols, env, alerted>>
  /\ UNCHANGED infoVars
  /\ UNCHANGED devVars

\* Variant of InfoCallback: the callback also overwrites the host result.
M_InfoCallback ==
  /\ infoState = "pending"
  /\ pc \in Suspended
  /\ infoState' = "resolved"
  /\ page' = page + 3
  /\ data' = << <<>> >>
  /\ UNCHANGED hostVars
  /\ UNCHANGED <<shaderModule, bufs, exercised, bindGroupLayout, bindGroup,
                 computePipeline, commands, passOpen, queue, gpu, submitCount,
                 copyArrayBuffer>>

\* the then-callback of requestAdapterInfo(): console.log and three
\* document.write calls; runs only while init() is suspended or finished
InfoCallback ==
  /\ infoState = "pending"
  /\ pc \in Suspended
  /\ infoState' = "resolved"
  /\ page' = page + 3
  /\ UNCHANGED hostVars
  /\ UNCHANGED devVars

\* requestAdapterInfo() rejects: no rejection handler is attached
InfoRejected ==
  /\ infoState = "pending"
  /\ pc \in Suspended
  /\ infoState' = "rejected"
  /\ UNCHANGED page
  /\ UNCHANGED hostVars
  /\ UNCHANGED devVars

\* ------------------------------------------------------ 2: shader module
\* device.createShaderModule({code: shader})
CreateShaderModule ==
  /\ pc = "createShaderModule"
  /\ shaderModule' = <<shader>>
  /\ pc' = "createInput1"
  /\ UNCHANGED <<rows, cols, env, alerted>>
  /\ UNCHANGED infoVars
  /\ UNCHANGED <<bufs, exercised, bindGroupLayout, bindGroup, computePipeline,
                 commands, passOpen, queue, gpu, submitCount, copyArrayBuffer,
                 data>>

\* ------------------------------------------------------------ 3: buffers
\* device.queue.writeBuffer(buffer, 0, hostData, 0, hostData.length): a
\* buffer without COPY_DST fails validation and is left as it was.
WriteBuffer(b, hostData) ==
  IF "COPY_DST" \in b.usage /\ Len(hostData) * BYTES_PER_ELEMENT <= b.size
    THEN [b EXCEPT !.contents =
            [i \in DOMAIN b.contents |->
               IF i <= Len(hostData) THEN hostData[i] ELSE b.contents[i]]]
    ELSE b

\* Variant of Input1Usage: the input buffer is also given COPY_SRC.
M_Input1Usage == {"STORAGE", "COPY_DST", "COPY_SRC"}

Input1Usage  == {"STORAGE", "COPY_DST"}
Input2Usage  == {"STORAGE", "COPY_DST"}
OutputUsage  == {"STORAGE", "COPY_SRC"}
StagingUsage == {"MAP_READ", "COPY_DST"}

\* input1 = device.createBuffer(...); device.queue.writeBuffer(input1, ...)
CreateInput1 ==
  /\ pc = "createInput1"
  /\ bufs' = [bufs EXCEPT !["input1"] =
                WriteBuffer(NewBuffer(BUFFER_SIZE, Input1Usage), matrixA)]
  /\ exercised' = [exercised EXCEPT !["input1"] = @ \cup {"COPY_DST"}]
  /\ pc' = "createInput2"
  /\ UNCHANGED <<rows, cols, env, alerted>>
  /\ UNCHANGED infoVars
  /\ UNCHANGED <<shaderModule, bindGroupLayout, bindGroup, computePipeline,
                 commands, passOpen, queue, gpu, submitCount, copyArrayBuffer,
                 data>>

\* input2 = device.createBuffer(...); device.queue.writeBuffer(input2, ...)
CreateInput2 ==
  /\ pc = "createInput2"
  /\ bufs' = [bufs EXCEPT !["input2"] =
                WriteBuffer(NewBuffer(BUFFER_SIZE, Input2Usage), matrixB)]
  /\ exercised' = [exercised EXCEPT !["input2"] = @ \cup {"COPY_DST"}]
  /\ pc' = "createOutput"
  /\ UNCHANGED <<rows, cols, env, alerted>>
  /\ UNCHANGED infoVars
  /\ UNCHANGED <<shaderModule, bindGroupLayout, bindGroup, computePipeline,
                 commands, passOpen, queue, gpu, submitCount, copyArrayBuffer,
                 data>>

\* output = device.createBuffer(...)
CreateOutput ==
  /\ pc = "createOutput"
  /\ bufs' = [bufs EXCEPT !["output"] = NewBuffer(BUFFER_SIZE, OutputUsage)]
  /\ pc' = "createStaging"
  /\ UNCHANGED <<rows, cols, env, alerted>>
  /\ UNCHANGED infoVars
  /\ UNCHANGED <<shaderModule, exercised, bindGroupLayout, bindGroup,
                 computePipeline, commands, passOpen, queue, gpu, submitCount,
                 copyArrayBuffer, data>>

\* stagingBuffer = device.createBuffer(...)
CreateStaging ==
  /\ pc = "createStaging"
  /\ bufs' = [bufs EXCEPT !["stagingBuffer"] =
                NewBuffer(BUFFER_SIZE, StagingUsage)]
  /\ pc' = "createBindGroupLayout"
  /\ UNCHANGED <<rows, cols, env, alerted>>
  /\ UNCHANGED infoVars
  /\ UNCHANGED <<shaderModule, exercised, bindGroupLayout, bindGroup,
                 computePipeline, commands, passOpen, queue, gpu, submitCount,
                 copyArrayBuffer, data>>

\* ------------------------------------- 4: layout, bind group and pipeline
LayoutEntries ==
  << [binding |-> 0, type |-> "read-only-storage"],
     [binding |-> 1, type |-> "read-only-storage"],
     [binding |-> 2, type |-> "storage"] >>

BindGroupEntries ==
  << [binding |-> 0, buffer |-> "input1"],
     [binding |-> 1, buffer |-> "input2"],
     [binding |-> 2, buffer |-> "output"] >>

\* device.createBindGroupLayout({entries: [...]})
CreateBindGroupLayout ==
  /\ pc = "createBindGroupLayout"
  /\ bindGroupLayout' = LayoutEntries
  /\ pc' = "createBindGroup"
  /\ UNCHANGED <<rows, cols, env, alerted>>
  /\ UNCHANGED infoVars
  /\ UNCHANGED <<shaderModule, bufs, exercised, bindGroup, computePipeline,
                 commands, passOpen, queue, gpu, submitCount, copyArrayBuffer,
                 data>>

\* A bind group is valid when every entry's buffer carries the usage its
\* layout slot asks for (both storage kinds ask for STORAGE).
BindGroupValid(layout, entries) ==
  /\ Len(layout) = Len(entries)
  /\ \A k \in DOMAIN entries :
       /\ entries[k].binding = layout[k].binding
       /\ "STORAGE" \in bufs[entries[k].buffer].usage

\* device.createBindGroup({layout: bindGroupLayout, entries: [...]})
CreateBindGroup ==
  /\ pc = "createBindGroup"
  /\ bindGroup' = IF BindGroupValid(bindGroupLayout, BindGroupEntries)
                    THEN BindGroupEntries ELSE <<>>
  /\ exercised' = [b \in BufferNames |->
                     IF \E k \in DOMAIN BindGroupEntries :
                          BindGroupEntries[k].buffer = b
                       THEN exercised[b] \cup {"STORAGE"}
                       ELSE exercised[b]]
  /\ pc' = "createComputePipeline"
  /\ UNCHANGED <<rows, cols, env, alerted>>
  /\ UNCHANGED infoVars
  /\ UNCHANGED <<shaderModule, bufs, bindGroupLayout, computePipeline,
                 commands, passOpen, queue, gpu, submitCount, copyArrayBuffer,
                 data>>

\* device.createComputePipeline({layout, compute: {module, entryPoint}})
CreateComputePipeline ==
  /\ pc = "createComputePipeline"
  /\ computePipeline' = <<[module |-> shaderModule[1],
                           layout |-> bindGroupLayout]>>
  /\ pc' = "createCommandEncoder"
  /\ UNCHANGED <<rows, cols, env, alerted>>
  /\ UNCHANGED infoVars
  /\ UNCHANGED <<shaderModule, bufs, exercised, bindGroupLayout, bindGroup,
                 commands, passOpen, queue, gpu, submitCount, copyArrayBuffer,
                 data>>

\* ------------------------------------------------- 5-7: command recording
RecordFrame ==
  /\ UNCHANGED <<rows, cols, env, alerted>>
  /\ UNCHANGED infoVars
  /\ UNCHANGED <<shaderModule, bufs, bindGroupLayout, bindGroup,
                 computePipeline, queue, gpu, submitCount, copyArrayBuffer,
                 data>>

\* commandEncoder = device.createCommandEncoder();
\* passEncoder = commandEncoder.beginComputePass()
BeginComputePass ==
  /\ pc = "createCommandEncoder"
  /\ commands' = <<>>
  /\ passOpen' = TRUE
  /\ pc' = "setPipeline"
  /\ UNCHANGED exercised
  /\ RecordFrame

\* passEncoder.setPipeline(computePipeline)
SetPipeline ==
  /\ pc = "setPipeline"
  /\ passOpen
  /\ commands' = Append(commands, [op |-> "setPipeline",
                                   pipeline |-> computePipeline])
  /\ pc' = "setBindGroup"
  /\ UNCHANGED <<passOpen, exercised>>
  /\ RecordFrame

\* passEncoder.setBindGroup(0, bindGroup)
SetBindGroup ==
  /\ pc = "setBindGroup"
  /\ passOpen
  /\ commands' = Append(commands, [op |-> "setBindGroup",
                                   entries |-> bindGroup])
  /\ pc' = "dispatchWorkgroups"
  /\ UNCHANGED <<passOpen, exercised>>
  /\ RecordFrame

\* passEncoder.dispatchWorkgroups(1)
DispatchWorkgroups ==
  /\ pc = "dispatchWorkgroups"
  /\ passOpen
  /\ commands' = Append(commands, [op |-> "dispatchWorkgroups",
                                   count |-> DISPATCH_COUNT])
  /\ pc' = "end"
  /\ UNCHANGED <<passOpen, exercised>>
  /\ RecordFrame

\* passEncoder.end()
EndPass ==
  /\ pc = "end"
  /\ passOpen
  /\ commands' = Append(commands, [op |-> "end"])
  /\ passOpen' = FALSE
  /\ pc' = "copyBufferToBuffer"
  /\ UNCHANGED exercised
  /\ RecordFrame

\* Variant of CopyBufferToBuffer: the copy is recorded ahead of the pass.
M_CopyBufferToBuffer ==
  /\ pc = "copyBufferToBuffer"
  /\ ~passOpen
  /\ commands' = << [op |-> "copyBufferToBuffer",
                     src |-> "output", dst |-> "stagingBuffer",
                     size |-> BUFFER_SIZE] >> \o commands
  /\ exercised' = [exercised EXCEPT !["output"] = @ \cup {"COPY_SRC"},
                                    !["stagingBuffer"] = @ \cup {"COPY_DST"}]
  /\ pc' = "submit"
  /\ UNCHANGED passOpen
  /\ RecordFrame

\* commandEncoder.copyBufferToBuffer(output, 0, stagingBuffer, 0, BUFFER_SIZE)
CopyBufferToBuffer ==
  /\ pc = "copyBufferToBuffer"
  /\ ~passOpen
  /\ commands' = Append(commands, [op |-> "copyBufferToBuffer",
                                   src |-> "output", dst |-> "stagingBuffer",
                                   size |-> BUFFER_SIZE])
  /\ exercised' = [exercised EXCEPT !["output"] = @ \cup {"COPY_SRC"},
                                    !["stagingBuffer"] = @ \cup {"COPY_DST"}]
  /\ pc' = "submit"
  /\ UNCHANGED passOpen
  /\ RecordFrame

\* A recorded command is valid when the buffers it names carry the usages
\* it needs; an invalid command invalidates the whole command buffer.
CommandValid(c) ==
  IF c.op = "copyBufferToBuffer"
    THEN /\ "COPY_SRC" \in bufs[c.src].usage
         /\ "COPY_DST" \in bufs[c.dst].usage
         /\ c.size <= bufs[c.src].size
         /\ c.size <= bufs[c.dst].size
    ELSE IF c.op = "setBindGroup" THEN c.entries # <<>>
    ELSE IF c.op = "setPipeline" THEN c.pipeline # <<>>
    ELSE TRUE

\* ------------------------------------------------------------- 8: submit
\* device.queue.submit([commandEncoder.finish()])
Submit ==
  /\ pc = "submit"
  /\ queue' = IF \A k \in DOMAIN commands : CommandValid(commands[k])
                THEN Append(queue, commands) ELSE queue
  /\ submitCount' = submitCount + 1
  /\ pc' = "mapAsync"
  /\ UNCHANGED <<rows, cols, env, alerted>>
  /\ UNCHANGED infoVars
  /\ UNCHANGED <<shaderModule, bufs, exercised, bindGroupLayout, bindGroup,
                 computePipeline, commands, passOpen, gpu, copyArrayBuffer,
                 data>>

\* ------------------------------------------------------ device execution
\* The guard of main: if (global_id.x >= ${BUFFER_SIZE}) { return; }
PassesGuard(module, gid) == ~(gid >= module.limit)

\* global_id.x of the lanes of a dispatch of count workgroups
Lanes(module, count) == 0..(count * module.workgroup_size - 1)

\* output[global_id.x] = input1[global_id.x] + input2[global_id.x], run by
\* every lane that passes the guard.  A lane whose index lies inside the
\* arrays writes its own element.  A lane that passes the guard with an
\* index outside the arrays makes an out-of-bounds access: each load yields
\* zero or some element of the array, the store is dropped or lands on some
\* element of output, possibly racing with the lane that owns it.
KernelOutcomes(in1, in2, out, module, count) ==
  LET n      == Len(out)
      active == {g \in Lanes(module, count) : PassesGuard(module, g)}
      inb    == {g \in active : g < n}
      oob    == active \ inb
      normal == [i \in 1..n |-> IF (i - 1) \in inb THEN in1[i] + in2[i]
                                                   ELSE out[i]]
      stray  == {x + y : x \in {0} \cup Range(in1), y \in {0} \cup Range(in2)}
  IN  IF oob = {}
        THEN {normal}
        ELSE {f \in [1..n -> stray \cup Range(normal)] :
                /\ \A i \in 1..n : f[i] \in {normal[i]} \cup stray
                /\ Cardinality({i \in 1..n : f[i] # normal[i]})
                     <= Cardinality(oob)}

\* The buffer bound at a slot of the bind group in force
Bound(slot) == gpu.bindings[slot + 1].buffer

\* The device executes the next command of the oldest submitted command
\* buffer; commands of one command buffer execute in recorded order.
GpuExecute ==
  /\ queue # <<>>
  /\ LET cb == queue[1]
         c  == cb[gpu.index]
         last == gpu.index = Len(cb)
         next == IF last THEN 1 ELSE gpu.index + 1
     IN  /\ queue' = IF last THEN Tail(queue) ELSE queue
         /\ CASE c.op = "setPipeline" ->
                   /\ gpu' = [gpu EXCEPT !.pipeline = c.pipeline,
                                         !.index = next]
                   /\ UNCHANGED bufs
              [] c.op = "setBindGroup" ->
                   /\ gpu' = [gpu EXCEPT !.bindings = c.entries,
                                         !.index = next]
                   /\ UNCHANGED bufs
              [] c.op = "dispatchWorkgroups" ->
                   /\ gpu' = [gpu EXCEPT !.index = next]
                   /\ IF gpu.pipeline # <<>> /\ gpu.bindings # <<>>
                        THEN \E result \in
                               KernelOutcomes(bufs[Bound(0)].contents,
                                              bufs[Bound(1)].contents,
                                              bufs[Bound(2)].contents,
                                              gpu.pipeline[1].module,
                                              c.count) :
                               bufs' = [bufs EXCEPT
                                          ![Bound(2)].contents = result]
                        ELSE UNCHANGED bufs
              [] c.op = "end" ->
                   /\ gpu' = [gpu EXCEPT !.pipeline = <<>>,
                                         !.bindings = <<>>,
                                         !.index = next]
                   /\ UNCHANGED bufs
              [] c.op = "copyBufferToBuffer" ->
                   /\ gpu' = [gpu EXCEPT !.index = next]
                   /\ bufs' = [bufs EXCEPT ![c.dst].contents =
                                [i \in DOMAIN @ |->
                                   IF i <= c.size \div BYTES_PER_ELEMENT
                                     THEN bufs[c.src].contents[i] ELSE @[i]]]
  /\ UNCHANGED hostVars
  /\ UNCHANGED infoVars
  /\ UNCHANGED <<shaderModule, exercised, bindGroupLayout, bindGroup,
                 computePipeline, commands, passOpen, submitCount,
                 copyArrayBuffer, data>>

\* --------------------------------------------------------------- readback
MapError      == "mapAsync rejected"
MappedRangeError    == "getMappedRange threw"
SliceError    == "slice threw"

ReadFrame ==
  /\ UNCHANGED <<rows, cols, env>>
  /\ UNCHANGED infoVars
  /\ UNCHANGED <<shaderModule, bindGroupLayout, bindGroup, computePipeline,
                 commands, passOpen, queue, gpu, submitCount>>

\* stagingBuffer.mapAsync(GPUMapMode.READ, 0, BUFFER_SIZE) is called and
\* awaited
MapAsync ==
  /\ pc = "mapAsync"
  /\ bufs' = [bufs EXCEPT !["stagingBuffer"].mapState = "pending"]
  /\ exercised' = [exercised EXCEPT !["stagingBuffer"] = @ \cup {"MAP_READ"}]
  /\ pc' = "awaitMap"
  /\ UNCHANGED <<alerted, copyArrayBuffer, data>>
  /\ ReadFrame

\* The map promise resolves once the device has finished every command
\* buffer submitted before the mapAsync call.
MapResolved ==
  /\ pc = "awaitMap"
  /\ bufs["stagingBuffer"].mapState = "pending"
  /\ "MAP_READ" \in bufs["stagingBuffer"].usage
  /\ queue = <<>>
  /\ bufs' = [bufs EXCEPT !["stagingBuffer"].mapState = "mapped"]
  /\ pc' = "getMappedRange"
  /\ UNCHANGED <<alerted, exercised, copyArrayBuffer, data>>
  /\ ReadFrame

\* The map promise rejects (validation error or device loss): init() rejects
MapRejected ==
  /\ pc = "awaitMap"
  /\ bufs["stagingBuffer"].mapState = "pending"
  /\ bufs' = [bufs EXCEPT !["stagingBuffer"].mapState = "unmapped"]
  /\ Catch(MapError)
  /\ UNCHANGED <<exercised, copyArrayBuffer, data>>
  /\ ReadFrame

\* copyArrayBuffer = stagingBuffer.getMappedRange(0, BUFFER_SIZE)
GetMappedRange ==
  /\ pc = "getMappedRange"
  /\ bufs["stagingBuffer"].mapState = "mapped"
  /\ copyArrayBuffer' = <<bufs["stagingBuffer"].contents>>
  /\ pc' = "slice"
  /\ UNCHANGED <<alerted, bufs, exercised, data>>
  /\ ReadFrame

\* getMappedRange throws (the range's ArrayBuffer cannot be allocated, or
\* the buffer is not mapped): init() rejects at that statement
GetMappedRangeThrows ==
  /\ pc = "getMappedRange"
  /\ Catch(MappedRangeError)
  /\ UNCHANGED <<bufs, exercised, copyArrayBuffer, data>>
  /\ ReadFrame

\* Variant of Slice: the buffer is unmapped before the range is copied.
M_Slice ==
  /\ pc = "slice"
  /\ bufs' = [bufs EXCEPT !["stagingBuffer"].mapState = "unmapped"]
  /\ copyArrayBuffer' = <<>>
  /\ data' = << <<>> >>
  /\ pc' = "done"
  /\ UNCHANGED <<alerted, exercised>>
  /\ ReadFrame

\* data = copyArrayBuffer.slice(): a copy owned by the host; the slice of a
\* detached ArrayBuffer is empty
Slice ==
  /\ pc = "slice"
  /\ data' = IF copyArrayBuffer = <<>> THEN << <<>> >>
                                       ELSE <<copyArrayBuffer[1]>>
  /\ pc' = "unmap"
  /\ UNCHANGED <<alerted, bufs, exercised, copyArrayBuffer>>
  /\ ReadFrame

\* slice() throws (the copy cannot be allocated): init() rejects
SliceThrows ==
  /\ pc = "slice"
  /\ Catch(SliceError)
  /\ UNCHANGED <<bufs, exercised, copyArrayBuffer, data>>
  /\ ReadFrame

\* stagingBuffer.unmap(): the mapped range is detached; the rest of init()
\* logs new Float32Array(data) and the execution time
Unmap ==
  /\ pc = "unmap"
  /\ bufs' = [bufs EXCEPT !["stagingBuffer"].mapState = "unmapped"]
  /\ copyArrayBuffer' = <<>>
  /\ pc' = "done"
  /\ UNCHANGED <<alerted, exercised, data>>
  /\ ReadFrame

\* ------------------------------------------------------------ the program
Next ==
  \/ NoGpu
  \/ RequestAdapter
  \/ AdapterNull
  \/ AdapterGranted
  \/ DeviceRejected
  \/ DeviceGranted
  \/ InfoCallback
  \/ InfoRejected
  \/ CreateShaderModule
  \/ CreateInput1
  \/ CreateInput2
  \/ CreateOutput
  \/ CreateStaging
  \/ CreateBindGroupLayout
  \/ CreateBindGroup
  \/ CreateComputePipeline
  \/ BeginComputePass
  \/ SetPipeline
  \/ SetBindGroup
  \/ DispatchWorkgroups
  \/ EndPass
  \/ CopyBufferToBuffer
  \/ Submit
  \/ GpuExecute
  \/ MapAsync
  \/ MapResolved
  \/ MapRejected
  \/ GetMappedRange
  \/ GetMappedRangeThrows
  \/ Slice
  \/ SliceThrows
  \/ Unmap

Spec == Init /\ [][Next]_vars

\* The runs whose problem is larger than one workgroup, as the shipped
\* rows = cols = 5000 is.
InitWide == Init /\ rows * cols > WORKGROUP_SIZE
SpecWide == InitWide /\ [][Next]_vars

\* ------------------------------------------------------------ properties
ElementCount == rows * cols
Staging      == bufs["stagingBuffer"]
Ops(cmds)    == [k \in DOMAIN cmds |-> cmds[k].op]
RecordedOrder ==
  <<"setPipeline", "setBindGroup", "dispatchWorkgroups", "end",
    "copyBufferToBuffer">>
AfterSubmit ==
  {"mapAsync", "awaitMap", "getMappedRange", "slice", "unmap", "done"}

\* C1: a run that completes has read back A[i] + B[i] at every index i of
\* [0, rows*cols), the last one included.
C1_ElementwiseSum ==
  pc = "done" =>
    data = << [i \in 1..ElementCount |-> matrixA[i] + matrixB[i]] >>

\* C2: every recorded dispatch covers the problem: workgroups times lanes
\* per workgroup is at least rows*cols.
C2_DispatchCovers ==
  \A k \in DOMAIN commands :
    commands[k].op = "dispatchWorkgroups" =>
      commands[k].count * WORKGROUP_SIZE >= ElementCount

\* C3: in the compiled kernel no lane whose global index is at or beyond the
\* element count rows*cols passes the bounds check.
C3_GuardIsElementCount ==
  shaderModule # <<>> =>
    \A gid \in 0..BUFFER_SIZE :
      gid >= ElementCount => ~PassesGuard(shaderModule[1], gid)

\* C4: one command sequence is recorded and submitted per run, its commands
\* are set pipeline, set bindings, dispatch, end, copy in that order, and
\* once the device has run it the staging buffer holds what the dispatch
\* left in the output buffer.
C4_OneOrderedSequence ==
  /\ submitCount <= 1
  /\ pc \in AfterSubmit => submitCount = 1
  /\ submitCount = 1 =>
       /\ Ops(commands) = RecordedOrder
       /\ queue \in {<<>>, <<commands>>}
       /\ queue = <<>> => Staging.contents = bufs["output"].contents

C4_Witness ==
  /\ submitCount = 1
  /\ queue = <<>>
  /\ Staging.contents = bufs["output"].contents
  /\ \E i \in DOMAIN Staging.contents : Staging.contents[i] # 0

\* C5: readback runs submit, map wait, mapped view, host copy, unmap in that
\* order: the staging buffer is mapped only after the one submission has
\* been executed, the view exists only while the buffer is mapped, and the
\* host array taken before unmap still holds the staging contents afterwards.
C5_ReadbackOrder ==
  /\ Staging.mapState # "unmapped" => submitCount = 1
  /\ Staging.mapState = "mapped" => queue = <<>>
  /\ copyArrayBuffer # <<>> =>
       /\ Staging.mapState = "mapped"
       /\ copyArrayBuffer = <<Staging.contents>>
  /\ data # <<>> => data = <<Staging.contents>>
  /\ pc = "unmap" => data # <<>> /\ Staging.mapState = "mapped"
  /\ pc = "done" =>
       /\ Staging.mapState = "unmapped"
       /\ copyArrayBuffer = <<>>
       /\ data = <<Staging.contents>>

C5_Witness ==
  /\ pc = "done"
  /\ Staging.mapState = "unmapped"
  /\ data = <<Staging.contents>>
  /\ Len(data[1]) = ElementCount

\* C6: no run ends, normally or with an error, with the staging buffer
\* still mapped.
C6_UnmappedAtEnd ==
  pc \in {"done", "caught"} => Staging.mapState # "mapped"

\* C7: when navigator.gpu is missing, the adapter is null or the device
\* request is rejected, init() fails with that error reaching the catch
\* handler, and no shader module, buffer, recorded command or submission
\* exists in that run.
AcquisitionFails == ~env.gpu \/ ~env.adapter \/ ~env.device
C7_AcquireFailureDoesNothing ==
  AcquisitionFails =>
    /\ pc \in {"start", "awaitAdapter", "awaitDevice", "caught"}
    /\ pc = "caught" =>
         alerted = IF ~env.gpu THEN NoGpuError
                   ELSE IF ~env.adapter THEN NoAdapterError
                   ELSE NoDeviceError
    /\ pc # "caught" => alerted = ""
    /\ shaderModule = <<>>
    /\ \A b \in BufferNames : bufs[b] = NoBuffer
    /\ computePipeline = <<>>
    /\ commands = <<>>
    /\ queue = <<>>
    /\ submitCount = 0

C7_Witness ==
  /\ env.gpu /\ env.adapter /\ ~env.device
  /\ pc = "caught"
  /\ alerted = NoDeviceError
  /\ shaderModule = <<>>

\* C9: each buffer is created with exactly the usages the pipeline puts it
\* to: uploads hit COPY_DST buffers, the copy goes from a COPY_SRC to a
\* COPY_DST buffer, only a MAP_READ buffer is mapped, bound buffers satisfy
\* their slots, and the inputs are neither mappable nor bound writable.
C9_LeastPrivilege ==
  /\ \A b \in BufferNames : exercised[b] \subseteq bufs[b].usage
  /\ pc = "done" => \A b \in BufferNames : exercised[b] = bufs[b].usage
  /\ \A b \in BufferNames :
       bufs[b].mapState # "unmapped" => "MAP_READ" \in bufs[b].usage
  /\ \A k \in DOMAIN commands : CommandValid(commands[k])
  /\ bindGroup # <<>> => BindGroupValid(bindGroupLayout, bindGroup)
  /\ pc \in AfterSubmit => bindGroup # <<>>
  /\ \A b \in {"input1", "input2"} :
       /\ bufs[b].usage \cap {"MAP_READ", "MAP_WRITE"} = {}
       /\ \A k \in DOMAIN bindGroup :
            bindGroup[k].buffer = b =>
              bindGroupLayout[k].type = "read-only-storage"

C9_Witness ==
  /\ pc = "done"
  /\ \A b \in BufferNames : bufs[b].created /\ exercised[b] = bufs[b].usage

\* C10: the un-awaited adapter-info query settles at any suspension point
\* or never, and the step in which it settles changes nothing of the
\* computation: no buffer, command, submission or host result.
Computed ==
  [i \in 1..ElementCount |->
     IF i - 1 < DISPATCH_COUNT * WORKGROUP_SIZE THEN matrixA[i] + matrixB[i]
                                                ELSE 0]
C10_InfoIsInert ==
  /\ [][infoState' # infoState /\ infoState = "pending"
          => UNCHANGED <<hostVars, devVars>>]_vars
  /\ [](page > 0 => infoState = "resolved")
  /\ [](pc = "done" /\ ElementCount >= WORKGROUP_SIZE => data = <<Computed>>)

C10_Witness ==
  /\ infoState = "resolved"
  /\ page = 3
  /\ pc = "done"
  /\ queue = <<>>
  /\ gpu.index = 1
  /\ ElementCount > WORKGROUP_SIZE
  /\ data = <<Computed>>

\* The callback has run while init() was waiting for the map and the device
\* was still executing the submitted commands.
C10_During ==
  /\ infoState = "resolved"
  /\ pc = "awaitMap"
  /\ queue # <<>>

====
